---- MODULE Spec2Model ----
(***************************************************************************)
(* Model of cmd/kubeadm/app/phases/upgrade/postupgrade.go:                 *)
(* PerformPostUpgradeTasks and its helpers (the DNS deployment swap, the   *)
(* self-hosting gate, the API-server certificate backup with moveFiles /   *)
(* rollbackFiles, and the certificate age check).                          *)
(***************************************************************************)
EXTENDS Integers, Sequences, FiniteSets, TLC

\* ------------------------------------------------------------------ bounds
\* collaborator / IO failures injected over one call
MaxFaults == 2
\* rename failures injected over one moveFiles
MaxMoveFaults == 3
\* calls of PerformPostUpgradeTasks in one behaviour (a re-run starts over)
MaxRuns == 2
\* failures injected over a behaviour with re-runs
MaxRerunFaults == 1
\* failures injected over the call whose termination is checked
MaxFairFaults == 1
\* largest ReadyReplicas the installed DNS deployment reports
MaxReplicas == 1
\* files besides the certificate and the key that a FileMoveSet may name
MaxExtraFiles == 1
\* days around the expiry horizon sampled for the certificate's age
MaxSkewDays == 1

\* ------------------------------------------------------- program constants
\* var expiry = 180 * 24 * time.Hour, in hours
expiry == 180 * 24
\* one attempt more is allowed
TryRunThresholdOneMore == 10 + 1

\* the failureThreshold handed to apiclient.TryRunCommand
TryRunThreshold == 10

KubeDNS == "kube-dns"
CoreDNS == "coredns"
APIServerCertName == "apiserver.crt"
APIServerKeyName == "apiserver.key"
certAndKeyDir == "/etc/kubernetes/pki"

\* filepath.Join
Join(dir, name) == dir \o "/" \o name

subDir == Join(certAndKeyDir, "expired")

ExtraNames == {"extra" \o ToString(i) : i \in 1..MaxExtraFiles}
Names == {APIServerCertName, APIServerKeyName} \cup ExtraNames
Dirs == {certAndKeyDir, subDir}
Paths == {Join(d, n) : d \in Dirs, n \in Names}
ParentOf(p) == CHOOSE d \in Dirs : \E n \in Names : p = Join(d, n)

certPath == Join(certAndKeyDir, APIServerCertName)
keyPath == Join(certAndKeyDir, APIServerKeyName)

\* both files are sent to the certificate's name under expired/
filesToMoveSameDestination ==
    { <<Join(certAndKeyDir, APIServerCertName), Join(subDir, APIServerCertName)>>,
      <<Join(certAndKeyDir, APIServerKeyName), Join(subDir, APIServerCertName)>> }

\* the map literal of backupAPIServerCertAndKey, as a set of <<from, to>>
filesToMove ==
    { <<Join(certAndKeyDir, APIServerCertName), Join(subDir, APIServerCertName)>>,
      <<Join(certAndKeyDir, APIServerKeyName), Join(subDir, APIServerKeyName)>> }

\* the steps of PerformPostUpgradeTasks, in the order of the source text
StepOrder ==
    << "UploadConfiguration", "CreateConfigMap", "getKubeletDir", "DownloadConfig",
       "AnnotateCRISocket", "AllowBootstrapTokensToPostCSRs",
       "AutoApproveNodeBootstrapTokens", "AutoApproveNodeCertificateRotation",
       "upgradeToSelfHosting", "CreateClusterInfoRBACRules",
       "shouldBackupAPIServerCertAndKey", "backupAPIServerCertAndKey",
       "CreateAPIServerCertAndKeyFiles", "EnsureDNSAddon",
       "removeOldDNSDeploymentIfAnotherDNSIsUsed", "EnsureProxyAddon" >>
Steps == {StepOrder[i] : i \in 1..Len(StepOrder)}

VARIABLES
    dryRun,          \* the dryRun argument of the current call
    featSelfHosting, \* features.Enabled(cfg.FeatureGates, features.SelfHosting)
    featCoreDNS,     \* features.Enabled(cfg.FeatureGates, features.CoreDNS)
    pc,              \* position in PerformPostUpgradeTasks
    errs,            \* errs []error of PerformPostUpgradeTasks
    result,          \* the value PerformPostUpgradeTasks returned
    out,             \* what each step returned in this call ("none": not invoked)
    calls,           \* the steps invoked in this call, in order
    warnings,        \* the WARNING lines printed in this call
    faults,          \* failures that may still be injected
    run,             \* number of the current call
    fs,              \* the files: path -> content (0: no such file)
    dirs,            \* the directories that exist
    fs0,             \* fs when the current call started
    dirs0,           \* dirs when the current call started
    faults0,         \* faults when the current call started
    shouldBackup,    \* local shouldBackup of PerformPostUpgradeTasks
    selfHosted,      \* cluster: what IsControlPlaneSelfHosted reports
    gateLog,         \* one record per call of upgradeToSelfHosting, over all runs
    deployments,     \* cluster: the DNS deployments that exist
    attempt,         \* invocations of the closure by TryRunCommand in this call
    attemptLog,      \* API requests of the latest invocation of the closure
    swapRet,         \* what TryRunCommand returned ("none": it has not returned)
    readySeen,       \* an invocation of the closure in this call of TryRunCommand
                     \* found the installed DNS deployment with a ready replica
    fetchIssued,     \* a Get of the installed DNS deployment was issued in this call
    deleteIssued,    \* a delete of the stale DNS deployment was issued in this call
    mvPc,            \* position in moveFiles / rollbackFiles
    mvFiles,         \* argument files of moveFiles
    mvTodo,          \* pairs the range loop of moveFiles has not visited
    filesToRecover,  \* filesToRecover of moveFiles: set of <<to, from>>
    rbTodo,          \* pairs the range loop of rollbackFiles has not visited
    rbErrs,          \* errs of rollbackFiles
    rbFailed,        \* reversing renames of this attempt that failed
    mvRet,           \* what moveFiles returned
    mvMoved,         \* pairs renamed by moveFiles in this attempt, in order
    mvFs0,           \* fs when moveFiles was entered
    certFile,        \* what certutil.CertsFromFile gives for the certificate file
    now,             \* time.Now(), in hours
    certRet          \* what shouldBackupAPIServerCertAndKey returned, called alone

orchVars == <<pc, errs, result, out, calls, warnings, shouldBackup>>
cfgVars == <<dryRun, featSelfHosting, featCoreDNS>>
certVars == <<certFile, now, certRet>>
runVars == <<run, fs0, dirs0, faults0>>
gateVars == <<selfHosted, gateLog>>
dnsVars == <<deployments, attempt, attemptLog, swapRet, readySeen, fetchIssued,
            deleteIssued>>
mvVars == <<mvPc, mvFiles, mvTodo, filesToRecover, rbTodo, rbErrs, rbFailed, mvRet,
           mvMoved, mvFs0>>
vars == <<orchVars, cfgVars, certVars, runVars, gateVars, dnsVars, mvVars, faults, fs, dirs>>

NoRet == [nil |-> TRUE, errors |-> <<>>]


\* ------------------------------------------------------- pieces of the code
\* errs = []error{err}: the slice is overwritten, earlier failures are lost
AppendErrOverwrite(es, e) == <<e>>

\* errs = append(errs, err)
AppendErr(es, e) == Append(es, e)

\* errors.NewAggregate(errs): nil for an empty list, else an error holding the list
NewAggregate(es) ==
    IF Len(es) = 0 THEN [nil |-> TRUE, errors |-> <<>>]
    ELSE [nil |-> FALSE, errors |-> es]

\* getKubeletDir: ioutil.TempDir may fail when dry-running; the real run
\* returns the constant KubeletRunDirectory and no error
GetKubeletDirCanFail(dry) == dry

\* a failed directory resolution returns from PerformPostUpgradeTasks
AfterGetKubeletDirAbort(failed) == IF failed THEN "return" ELSE "download"

\* the download is attempted whatever getKubeletDir returned
AfterGetKubeletDirAlwaysDownload(failed) == "download"

\* where PerformPostUpgradeTasks goes after getKubeletDir returned
AfterGetKubeletDir(failed) == IF failed THEN "crisocket" ELSE "download"

\* "not found" tolerated in a real run as well
DownloadErrAppendedNotFoundAnyMode(o, dry) == ~(o = "notfound")

\* !(apierrors.IsNotFound(err) && dryRun): is the download error appended
DownloadErrAppended(o, dry) == ~(o = "notfound" /\ dry)

\* the flag is left out: the state check alone decides
ShouldConvertStateOnly(feat, hosted) == ~hosted

\* the state check is left out: the flag alone decides
ShouldConvertFlagOnly(feat, hosted) == feat

\* features.Enabled(SelfHosting) && !IsControlPlaneSelfHosted(client)
ShouldConvert(feat, hosted) == feat /\ ~hosted

\* getWaiter
getWaiter(dry) == IF dry THEN "dryrun.Waiter" ELSE "KubeWaiter"

\* the cluster after selfhosting.CreateSelfHostedControlPlane returned c:
\* a successful real conversion leaves the control plane self-hosted, a dry
\* run or a failed conversion leaves it as it was
ConverterEffect(hosted, c, dry) == hosted \/ (c = "ok" /\ ~dry)

\* the horizon is reached, not passed: >= for >
shouldBackupAtHorizon(load, elapsed) ==
    IF load = "loaderr" THEN [backup |-> FALSE, err |-> TRUE]
    ELSE IF load = "empty" THEN [backup |-> FALSE, err |-> TRUE]
    ELSE IF elapsed >= expiry THEN [backup |-> TRUE, err |-> FALSE]
    ELSE [backup |-> FALSE, err |-> FALSE]

\* shouldBackupAPIServerCertAndKey: load is what certutil.CertsFromFile gave,
\* elapsed is time.Now().Sub(certs[0].NotBefore) in hours
shouldBackupAPIServerCertAndKey(load, elapsed) ==
    IF load = "loaderr" THEN [backup |-> FALSE, err |-> TRUE]
    ELSE IF load = "empty" THEN [backup |-> FALSE, err |-> TRUE]
    ELSE IF elapsed > expiry THEN [backup |-> TRUE, err |-> FALSE]
    ELSE [backup |-> FALSE, err |-> FALSE]

\* shouldBackupAPIServerCertAndKey on what CertsFromFile gave (an error, or
\* the certificates of the file) at time t: the error of the load, the
\* len(certs) == 0 test, and the age of certs[0]
ShouldBackupOf(file, t) ==
    IF file.err THEN shouldBackupAPIServerCertAndKey("loaderr", 0)
    ELSE IF Len(file.certs) = 0 THEN shouldBackupAPIServerCertAndKey("empty", 0)
    ELSE shouldBackupAPIServerCertAndKey("ok", t - file.certs[1].NotBefore)

\* where PerformPostUpgradeTasks goes after shouldBackupAPIServerCertAndKey
AfterShouldBackup(r) ==
    IF r.err THEN "dns" ELSE IF r.backup THEN "backup" ELSE "dns"

\* a failed backup skips the reissue of the certificate
AfterBackupSkipsOnFailure(failed) == IF failed THEN "dns" ELSE "createcert"

\* where PerformPostUpgradeTasks goes after backupAPIServerCertAndKey returned
AfterBackup(failed) == "createcert"

\* the warnings fail the run
WarningAppendedYes == TRUE

\* is the error of backupAPIServerCertAndKey / of the determination appended
WarningAppended == FALSE

\* the dry-run guard is left out
RunsSwapAlways(dry) == TRUE

\* if !dryRun { removeOldDNSDeploymentIfAnotherDNSIsUsed }
RunsSwap(dry) == ~dry

installedDeploymentName(core) == IF core THEN CoreDNS ELSE KubeDNS
deploymentToDelete(core) == IF core THEN KubeDNS ELSE CoreDNS

\* the readiness test never fires
NotReadyYetNever(replicas) == replicas < 0

\* dnsDeployment.Status.ReadyReplicas == 0
NotReadyYet(replicas) == replicas = 0

\* err != nil: "not found" fails the attempt like any other error
DeleteFailsAttemptOnAnyError(d) == d # "ok"

\* err != nil && !apierrors.IsNotFound(err), for the delete's result d
DeleteFailsAttempt(d) == d # "ok" /\ d # "notfound"

\* what the Get of a deployment can return: an error, or the deployment
\* with its Status.ReadyReplicas
GetResults ==
    {[err |-> TRUE, ReadyReplicas |-> 0]} \cup
    {[err |-> FALSE, ReadyReplicas |-> n] : n \in 0..MaxReplicas}

\* the closure handed to TryRunCommand: g is what the Get returned, d what
\* the delete returns if it is issued.  Gives the
\* closure's result and the API requests it issued, in order.
SwapOp(core, g, d) ==
    LET get == [req |-> "Get", name |-> installedDeploymentName(core), res |-> g]
        del == [req |-> "Delete", name |-> deploymentToDelete(core), res |-> d]
    IN  IF g.err THEN [err |-> "get", log |-> <<get>>]
        ELSE IF NotReadyYet(g.ReadyReplicas) THEN [err |-> "notready", log |-> <<get>>]
        ELSE IF DeleteFailsAttempt(d) THEN [err |-> "delete", log |-> <<get, del>>]
        ELSE [err |-> "nil", log |-> <<get, del>>]

\* apiclient.TryRunCommand after the n-th invocation of the closure returned
\* e: "nil" ends it with success, the threshold ends it with the error
TryRunCommandNext(n, e) ==
    IF e = "nil" THEN "success"
    ELSE IF n >= TryRunThreshold THEN "failure"
    ELSE "retry"

\* what apiclient.TryRunCommand returns when it ends after the closure
\* returned e: nil on success, else the last error observed
TryRunCommandResult(next, e) ==
    IF next = "retry" THEN "none" ELSE IF next = "success" THEN "nil" ELSE e

\* the cluster after apiclient.DeleteDeploymentForeground returned d
DeleteEffect(deps, name, d) == IF d = "ok" THEN deps \ {name} ELSE deps

\* os.Rename(from, to) can succeed: from exists and the directory of to exists
RenameCan(f, ds, from, to) == f[from] # 0 /\ ParentOf(to) \in ds

\* the file is copied: the source stays where it was
RenameApplyCopy(f, from, to) == [p \in DOMAIN f |-> IF p = to THEN f[from] ELSE f[p]]

\* the files after a successful os.Rename(from, to)
RenameApply(f, from, to) == [p \in DOMAIN f |->
    IF p = to THEN f[from] ELSE IF p = from THEN 0 ELSE f[p]]

\* the map is overwritten: only the latest pair is remembered
MapPutLatestOnly(m, k, v) == {<<k, v>>}

\* m[k] = v on a Go map held as a set of <<key, value>>
MapPut(m, k, v) == {p \in m : p[1] # k} \cup {<<k, v>>}

\* os.Mkdir(subDir) can succeed: the directory does not exist yet
MkdirCan(ds, d) == d \notin ds

\* the files after certsphase.CreateAPIServerCertAndKeyFiles succeeded in
\* call r: a freshly issued certificate/key pair
CreateCertEffect(f, r) == [p \in DOMAIN f |->
    IF p \in {certPath, keyPath} THEN r + 1 ELSE f[p]]

\* the ages time.Now().Sub(NotBefore) a certificate of the given content can
\* have: a pair issued by an earlier call in this behaviour is fresh
ElapsedSamples(content) ==
    IF content = 1 THEN {expiry + 24 * d : d \in (0 - MaxSkewDays)..MaxSkewDays}
    ELSE {0}


\* a failed swap returns from PerformPostUpgradeTasks
AfterSwapAbort(failed) == IF failed THEN "return" ELSE "proxy"

\* where PerformPostUpgradeTasks goes after the swap returned: its error is
\* appended and the proxy add-on follows
AfterSwap(failed) == "proxy"

\* the loop of rollbackFiles ends at the first reversing rename that fails
RollbackRestStopAtFailure(todo, p, ok) == IF ok THEN todo \ {p} ELSE {}

\* the range loop of rollbackFiles: the pairs left after the rename of p,
\* whether it succeeded or its error was appended
RollbackRest(todo, p, ok) == todo \ {p}

\* ---------------------------------------------------------------- Init
NotCalled == [called |-> FALSE, backup |-> FALSE, err |-> FALSE]

NoCertCall ==
    /\ certFile = [err |-> FALSE, certs |-> <<>>]
    /\ now = 0
    /\ certRet = NotCalled

IdleMove ==
    /\ mvPc = "idle" /\ mvFiles = {} /\ mvTodo = {} /\ filesToRecover = {}
    /\ rbTodo = {} /\ rbErrs = <<>> /\ rbFailed = 0 /\ mvRet = NoRet /\ mvMoved = <<>>
    /\ mvFs0 = [p \in Paths |-> 0]

IdleMove1 ==
    /\ mvPc' = "idle" /\ mvFiles' = {} /\ mvTodo' = {} /\ filesToRecover' = {}
    /\ rbTodo' = {} /\ rbErrs' = <<>> /\ rbFailed' = 0 /\ mvRet' = NoRet /\ mvMoved' = <<>>
    /\ mvFs0' = [p \in Paths |-> 0]

\* a control plane whose upgrade just finished: the certificate and the key
\* are in place, expired/ exists only after an earlier backup
InitWith(budget) ==
    /\ dryRun \in BOOLEAN
    /\ featSelfHosting \in BOOLEAN
    /\ featCoreDNS \in BOOLEAN
    /\ pc = "upload"
    /\ errs = <<>>
    /\ result = NoRet
    /\ out = [s \in Steps |-> "none"]
    /\ calls = <<>>
    /\ warnings = <<>>
    /\ faults = budget
    /\ run = 1
    /\ fs = [p \in Paths |-> IF p \in {certPath, keyPath} THEN 1 ELSE 0]
    /\ dirs = {certAndKeyDir}
    /\ fs0 = fs
    /\ dirs0 = dirs
    /\ faults0 = faults
    /\ shouldBackup = FALSE
    /\ selfHosted \in BOOLEAN
    /\ gateLog = <<>>
    /\ deployments \in { {KubeDNS, CoreDNS}, {installedDeploymentName(featCoreDNS)} }
    /\ attempt = 0
    /\ attemptLog = <<>>
    /\ swapRet = "none"
    /\ readySeen = FALSE
    /\ fetchIssued = FALSE
    /\ deleteIssued = FALSE
    /\ IdleMove
    /\ NoCertCall

Init == InitWith(MaxFaults)

\* ------------------------------------------------ PerformPostUpgradeTasks
\* a collaborator that returns an error or nil, its error appended to errs
Collab(step, here, next) ==
    /\ pc = here
    /\ \E o \in {"ok", "err"} :
        /\ o = "err" => faults > 0
        /\ faults' = IF o = "err" THEN faults - 1 ELSE faults
        /\ errs' = IF o = "err" THEN AppendErr(errs, step) ELSE errs
        /\ out' = [out EXCEPT ![step] = o]
    /\ calls' = Append(calls, step)
    /\ pc' = next
    /\ UNCHANGED <<result, warnings, shouldBackup, cfgVars, certVars, runVars, gateVars,
                   dnsVars, mvVars, fs, dirs>>

UploadConfiguration == Collab("UploadConfiguration", "upload", "configmap")

CreateConfigMap == Collab("CreateConfigMap", "configmap", "kubeletdir")

GetKubeletDir ==
    /\ pc = "kubeletdir"
    /\ \E o \in {"ok", "err"} :
        /\ o = "err" => (GetKubeletDirCanFail(dryRun) /\ faults > 0)
        /\ faults' = IF o = "err" THEN faults - 1 ELSE faults
        /\ errs' = IF o = "err" THEN AppendErr(errs, "getKubeletDir") ELSE errs
        /\ out' = [out EXCEPT !["getKubeletDir"] = o]
        /\ pc' = AfterGetKubeletDir(o = "err")
    /\ calls' = Append(calls, "getKubeletDir")
    /\ UNCHANGED <<result, warnings, shouldBackup, cfgVars, certVars, runVars, gateVars,
                   dnsVars, mvVars, fs, dirs>>

DownloadConfig ==
    /\ pc = "download"
    /\ \E o \in {"ok", "notfound", "err"} :
        /\ o # "ok" => faults > 0
        /\ faults' = IF o # "ok" THEN faults - 1 ELSE faults
        /\ errs' = IF o # "ok" /\ DownloadErrAppended(o, dryRun)
                   THEN AppendErr(errs, "DownloadConfig") ELSE errs
        /\ out' = [out EXCEPT !["DownloadConfig"] = o]
    /\ calls' = Append(calls, "DownloadConfig")
    /\ pc' = "crisocket"
    /\ UNCHANGED <<result, warnings, shouldBackup, cfgVars, certVars, runVars, gateVars,
                   dnsVars, mvVars, fs, dirs>>

AnnotateCRISocket == Collab("AnnotateCRISocket", "crisocket", "postcsrs")

AllowBootstrapTokensToPostCSRs ==
    Collab("AllowBootstrapTokensToPostCSRs", "postcsrs", "autoapprove")

AutoApproveNodeBootstrapTokens ==
    Collab("AutoApproveNodeBootstrapTokens", "autoapprove", "certrotation")

AutoApproveNodeCertificateRotation ==
    Collab("AutoApproveNodeCertificateRotation", "certrotation", "selfhosting")

\* upgradeToSelfHosting, and the append of its error by the caller
UpgradeToSelfHosting ==
    /\ pc = "selfhosting"
    /\ \E c \in {"ok", "err"} :
        LET conv == ShouldConvert(featSelfHosting, selfHosted)
            o == IF conv THEN c ELSE "ok"
        IN  /\ (~conv) => c = "ok"
            /\ o = "err" => faults > 0
            /\ faults' = IF o = "err" THEN faults - 1 ELSE faults
            /\ selfHosted' = IF conv THEN ConverterEffect(selfHosted, c, dryRun)
                             ELSE selfHosted
            /\ gateLog' = Append(gateLog,
                 [flag |-> featSelfHosting, hosted |-> selfHosted, dry |-> dryRun,
                  converted |-> conv, conv |-> IF conv THEN c ELSE "none",
                  waiter |-> IF conv THEN getWaiter(dryRun) ELSE "none",
                  res |-> o])
            /\ errs' = IF o = "err" THEN AppendErr(errs, "upgradeToSelfHosting") ELSE errs
            /\ out' = [out EXCEPT !["upgradeToSelfHosting"] = o]
    /\ calls' = Append(calls, "upgradeToSelfHosting")
    /\ pc' = "clusterinfo"
    /\ UNCHANGED <<result, warnings, shouldBackup, cfgVars, certVars, runVars,
                   dnsVars, mvVars, fs, dirs>>

CreateClusterInfoRBACRules ==
    Collab("CreateClusterInfoRBACRules", "clusterinfo", "shouldbackup")

\* shouldBackup, err := shouldBackupAPIServerCertAndKey(certAndKeyDir), and
\* the branch on its results
ShouldBackupStep ==
    /\ pc = "shouldbackup"
    /\ \E load \in {"ok", "loaderr", "empty"}, elapsed \in ElapsedSamples(fs[certPath]) :
        LET r == shouldBackupAPIServerCertAndKey(load, elapsed)
        IN  /\ fs[certPath] = 0 => load = "loaderr"
            /\ (fs[certPath] # 0 /\ load # "ok") => faults > 0
            /\ faults' = IF fs[certPath] # 0 /\ load # "ok" THEN faults - 1 ELSE faults
            /\ shouldBackup' = r.backup
            /\ out' = [out EXCEPT !["shouldBackupAPIServerCertAndKey"] =
                          IF r.err THEN "err" ELSE "ok"]
            /\ warnings' = IF r.err THEN Append(warnings, "determine") ELSE warnings
            /\ errs' = IF r.err /\ WarningAppended
                       THEN AppendErr(errs, "shouldBackupAPIServerCertAndKey") ELSE errs
            /\ pc' = AfterShouldBackup(r)
    /\ calls' = Append(calls, "shouldBackupAPIServerCertAndKey")
    /\ UNCHANGED <<result, cfgVars, certVars, runVars, gateVars, dnsVars, mvVars, fs, dirs>>


\* backupAPIServerCertAndKey up to its call of moveFiles: os.Mkdir(subDir),
\* the early return on its failure, the building of filesToMove
BackupStart ==
    /\ pc = "backup"
    /\ calls' = Append(calls, "backupAPIServerCertAndKey")
    /\ \E ok \in BOOLEAN :
        /\ ok => MkdirCan(dirs, subDir)
        /\ (~ok /\ MkdirCan(dirs, subDir)) => faults > 0
        /\ faults' = IF ~ok /\ MkdirCan(dirs, subDir) THEN faults - 1 ELSE faults
        /\ IF ok
           THEN /\ dirs' = dirs \cup {subDir}
                /\ mvPc' = "move"
                /\ mvFiles' = filesToMove
                /\ mvTodo' = filesToMove
                /\ filesToRecover' = {}
                /\ mvMoved' = <<>>
                /\ mvFs0' = fs
                /\ pc' = "backup_move"
                /\ UNCHANGED <<out, warnings, errs, rbTodo, rbErrs, rbFailed, mvRet>>
           ELSE /\ out' = [out EXCEPT !["backupAPIServerCertAndKey"] = "err"]
                /\ warnings' = Append(warnings, "backup")
                /\ errs' = IF WarningAppended
                           THEN AppendErr(errs, "backupAPIServerCertAndKey") ELSE errs
                /\ pc' = AfterBackup(TRUE)
                /\ UNCHANGED <<dirs, mvVars>>
    /\ UNCHANGED <<result, shouldBackup, cfgVars, certVars, runVars, gateVars, dnsVars, fs>>

\* one iteration of the range loop of moveFiles: os.Rename(from, to); on its
\* failure the loop ends and rollbackFiles(filesToRecover, err) starts
MoveStep ==
    /\ mvPc = "move"
    /\ mvTodo # {}
    /\ \E p \in mvTodo, ok \in BOOLEAN :
        LET can == RenameCan(fs, dirs, p[1], p[2])
        IN  /\ ok => can
            /\ (~ok /\ can) => faults > 0
            /\ faults' = IF ~ok /\ can THEN faults - 1 ELSE faults
            /\ IF ok
               THEN /\ fs' = RenameApply(fs, p[1], p[2])
                    /\ filesToRecover' = MapPut(filesToRecover, p[2], p[1])
                    /\ mvTodo' = mvTodo \ {p}
                    /\ mvMoved' = Append(mvMoved, p)
                    /\ UNCHANGED <<mvPc, rbTodo, rbErrs>>
               ELSE /\ mvPc' = "rollback"
                    /\ rbTodo' = filesToRecover
                    /\ rbErrs' = <<[old |-> p[1], new |-> p[2]]>>
                    /\ UNCHANGED <<fs, filesToRecover, mvTodo, mvMoved>>
    /\ UNCHANGED <<mvFiles, mvRet, mvFs0, rbFailed, orchVars, cfgVars, certVars, runVars,
                   gateVars, dnsVars, dirs>>

\* the range loop of moveFiles ended: return nil
MoveDone ==
    /\ mvPc = "move"
    /\ mvTodo = {}
    /\ mvRet' = [nil |-> TRUE, errors |-> <<>>]
    /\ mvPc' = "returned"
    /\ UNCHANGED <<mvFiles, mvTodo, filesToRecover, rbTodo, rbErrs, rbFailed, mvMoved, mvFs0,
                   orchVars, cfgVars, certVars, runVars, gateVars, dnsVars, faults, fs, dirs>>

\* one iteration of the range loop of rollbackFiles: os.Rename(from, to) of
\* a recovered pair, its error appended to errs
RollbackStep ==
    /\ mvPc = "rollback"
    /\ rbTodo # {}
    /\ \E p \in rbTodo, ok \in BOOLEAN :
        LET can == RenameCan(fs, dirs, p[1], p[2])
        IN  /\ ok => can
            /\ (~ok /\ can) => faults > 0
            /\ faults' = IF ~ok /\ can THEN faults - 1 ELSE faults
            /\ fs' = IF ok THEN RenameApply(fs, p[1], p[2]) ELSE fs
            /\ rbErrs' = IF ok THEN rbErrs
                         ELSE AppendErr(rbErrs, [old |-> p[1], new |-> p[2]])
            /\ rbFailed' = IF ok THEN rbFailed ELSE rbFailed + 1
            /\ rbTodo' = RollbackRest(rbTodo, p, ok)
    /\ UNCHANGED <<mvPc, mvFiles, mvTodo, filesToRecover, mvRet, mvMoved, mvFs0,
                   orchVars, cfgVars, certVars, runVars, gateVars, dnsVars, dirs>>

\* the range loop of rollbackFiles ended: return fmt.Errorf(..., NewAggregate(errs))
RollbackDone ==
    /\ mvPc = "rollback"
    /\ rbTodo = {}
    /\ mvRet' = [nil |-> FALSE, errors |-> NewAggregate(rbErrs).errors]
    /\ mvPc' = "returned"
    /\ UNCHANGED <<mvFiles, mvTodo, filesToRecover, rbTodo, rbErrs, rbFailed, mvMoved, mvFs0,
                   orchVars, cfgVars, certVars, runVars, gateVars, dnsVars, faults, fs, dirs>>

\* moveFiles returned to backupAPIServerCertAndKey, which returns its result
\* to PerformPostUpgradeTasks, which prints a warning for an error
BackupReturn ==
    /\ pc = "backup_move"
    /\ mvPc = "returned"
    /\ out' = [out EXCEPT !["backupAPIServerCertAndKey"] =
                  IF mvRet.nil THEN "ok" ELSE "err"]
    /\ warnings' = IF mvRet.nil THEN warnings ELSE Append(warnings, "backup")
    /\ errs' = IF ~mvRet.nil /\ WarningAppended
               THEN AppendErr(errs, "backupAPIServerCertAndKey") ELSE errs
    /\ pc' = AfterBackup(~mvRet.nil)
    /\ IdleMove1
    /\ UNCHANGED <<result, calls, shouldBackup, cfgVars, certVars, runVars, gateVars,
                   dnsVars, faults, fs, dirs>>

\* certsphase.CreateAPIServerCertAndKeyFiles(cfg), its error appended
CreateAPIServerCertAndKeyFiles ==
    /\ pc = "createcert"
    /\ \E o \in {"ok", "err"} :
        /\ o = "err" => faults > 0
        /\ faults' = IF o = "err" THEN faults - 1 ELSE faults
        /\ errs' = IF o = "err"
                   THEN AppendErr(errs, "CreateAPIServerCertAndKeyFiles") ELSE errs
        /\ out' = [out EXCEPT !["CreateAPIServerCertAndKeyFiles"] = o]
        /\ fs' = IF o = "ok" THEN CreateCertEffect(fs, run) ELSE fs
    /\ calls' = Append(calls, "CreateAPIServerCertAndKeyFiles")
    /\ pc' = "dns"
    /\ UNCHANGED <<result, warnings, shouldBackup, cfgVars, certVars, runVars, gateVars,
                   dnsVars, mvVars, dirs>>

\* dns.EnsureDNSAddon(cfg, client), its error appended, and the dry-run test
\* that guards the removal of the old deployment
EnsureDNSAddon ==
    /\ pc = "dns"
    /\ \E o \in {"ok", "err"} :
        /\ o = "err" => faults > 0
        /\ faults' = IF o = "err" THEN faults - 1 ELSE faults
        /\ errs' = IF o = "err" THEN AppendErr(errs, "EnsureDNSAddon") ELSE errs
        /\ out' = [out EXCEPT !["EnsureDNSAddon"] = o]
    /\ calls' = Append(calls, "EnsureDNSAddon")
    /\ pc' = IF RunsSwap(dryRun) THEN "removedns" ELSE "proxy"
    /\ UNCHANGED <<result, warnings, shouldBackup, cfgVars, certVars, runVars, gateVars,
                   dnsVars, mvVars, fs, dirs>>

\* removeOldDNSDeploymentIfAnotherDNSIsUsed: one invocation of the closure
\* by TryRunCommand, and, when TryRunCommand ends, the append of its error
SwapAttempt ==
    /\ pc = "removedns"
    /\ \E g \in GetResults, d \in {"ok", "notfound", "err"} :
        LET r == SwapOp(featCoreDNS, g, d)
            stale == deploymentToDelete(featCoreDNS)
            deleted == Len(r.log) = 2
            next == TryRunCommandNext(attempt + 1, r.err)
        IN  /\ d = "ok" => stale \in deployments
            /\ d = "notfound" => stale \notin deployments
            /\ (~deleted) => d = "err"
            /\ attemptLog' = r.log
            /\ swapRet' = TryRunCommandResult(next, r.err)
            /\ attempt' = attempt + 1
            /\ readySeen' = (readySeen \/ (~g.err /\ ~NotReadyYet(g.ReadyReplicas)))
            /\ fetchIssued' = TRUE
            /\ deleteIssued' = (deleteIssued \/ deleted)
            /\ deployments' = IF deleted THEN DeleteEffect(deployments, stale, d)
                              ELSE deployments
            /\ IF next = "retry"
               THEN UNCHANGED <<pc, errs, out>>
               ELSE /\ pc' = AfterSwap(next = "failure")
                    /\ out' = [out EXCEPT !["removeOldDNSDeploymentIfAnotherDNSIsUsed"] =
                                  IF next = "success" THEN "ok" ELSE "err"]
                    /\ errs' = IF next = "failure"
                               THEN AppendErr(errs, "removeOldDNSDeploymentIfAnotherDNSIsUsed")
                               ELSE errs
    /\ calls' = IF attempt = 0
                THEN Append(calls, "removeOldDNSDeploymentIfAnotherDNSIsUsed")
                ELSE calls
    /\ UNCHANGED <<result, warnings, shouldBackup, cfgVars, certVars, runVars, gateVars,
                   mvVars, faults, fs, dirs>>

\* proxy.EnsureProxyAddon(cfg, client), its error appended; the locals of
\* TryRunCommand and of its closure are gone by now
EnsureProxyAddon ==
    /\ pc = "proxy"
    /\ \E o \in {"ok", "err"} :
        /\ o = "err" => faults > 0
        /\ faults' = IF o = "err" THEN faults - 1 ELSE faults
        /\ errs' = IF o = "err" THEN AppendErr(errs, "EnsureProxyAddon") ELSE errs
        /\ out' = [out EXCEPT !["EnsureProxyAddon"] = o]
    /\ calls' = Append(calls, "EnsureProxyAddon")
    /\ pc' = "return"
    /\ attempt' = 0
    /\ attemptLog' = <<>>
    /\ swapRet' = "none"
    /\ readySeen' = FALSE
    /\ UNCHANGED <<result, warnings, shouldBackup, cfgVars, certVars, runVars, gateVars,
                   deployments, fetchIssued, deleteIssued, mvVars, fs, dirs>>

\* return errors.NewAggregate(errs)
Return ==
    /\ pc = "return"
    /\ result' = NewAggregate(errs)
    /\ pc' = "done"
    /\ UNCHANGED <<errs, out, calls, warnings, shouldBackup, cfgVars, certVars, runVars,
                   gateVars, dnsVars, mvVars, faults, fs, dirs>>

\* the operator runs the command again: PerformPostUpgradeTasks starts over
\* on the cluster and the files the earlier call left
Rerun ==
    /\ pc = "done"
    /\ run < MaxRuns
    /\ run' = run + 1
    /\ dryRun' \in BOOLEAN
    /\ pc' = "upload"
    /\ errs' = <<>>
    /\ result' = NoRet
    /\ out' = [s \in Steps |-> "none"]
    /\ calls' = <<>>
    /\ warnings' = <<>>
    /\ shouldBackup' = FALSE
    /\ fs0' = fs
    /\ dirs0' = dirs
    /\ faults0' = faults
    /\ attempt' = 0
    /\ attemptLog' = <<>>
    /\ swapRet' = "none"
    /\ readySeen' = FALSE
    /\ fetchIssued' = FALSE
    /\ deleteIssued' = FALSE
    /\ UNCHANGED <<featSelfHosting, featCoreDNS, certVars, gateVars, deployments,
                   mvVars, faults, fs, dirs>>

Next ==
    \/ UploadConfiguration
    \/ CreateConfigMap
    \/ GetKubeletDir
    \/ DownloadConfig
    \/ AnnotateCRISocket
    \/ AllowBootstrapTokensToPostCSRs
    \/ AutoApproveNodeBootstrapTokens
    \/ AutoApproveNodeCertificateRotation
    \/ UpgradeToSelfHosting
    \/ CreateClusterInfoRBACRules
    \/ ShouldBackupStep
    \/ BackupStart
    \/ MoveStep
    \/ MoveDone
    \/ RollbackStep
    \/ RollbackDone
    \/ BackupReturn
    \/ CreateAPIServerCertAndKeyFiles
    \/ EnsureDNSAddon
    \/ SwapAttempt
    \/ EnsureProxyAddon
    \/ Return

\* one call of PerformPostUpgradeTasks
Spec == Init /\ [][Next]_vars

\* one call of PerformPostUpgradeTasks in which every collaborator call
\* returns: the step the call has reached is eventually done
InitFair == InitWith(MaxFairFaults)

SpecFair == InitFair /\ [][Next]_vars /\ WF_vars(Next)

\* ---------------------------------------------------------------- re-runs
\* calls of PerformPostUpgradeTasks one after the other on the same cluster
\* and files, with one DNS configuration and fewer injected failures
InitRerun ==
    /\ InitWith(MaxRerunFaults)
    /\ featCoreDNS
    /\ deployments = {KubeDNS, CoreDNS}

NextRerun == Next \/ Rerun

SpecRerun == InitRerun /\ [][NextRerun]_vars

\* the process is terminated at any point of a call, and the operator runs
\* the command again on the cluster and the files as they are
Interrupt ==
    /\ pc \notin {"done", "moveFiles"}
    /\ run < MaxRuns
    /\ run' = run + 1
    /\ dryRun' \in BOOLEAN
    /\ pc' = "upload"
    /\ errs' = <<>>
    /\ result' = NoRet
    /\ out' = [s \in Steps |-> "none"]
    /\ calls' = <<>>
    /\ warnings' = <<>>
    /\ shouldBackup' = FALSE
    /\ fs0' = fs
    /\ dirs0' = dirs
    /\ faults0' = faults
    /\ attempt' = 0
    /\ attemptLog' = <<>>
    /\ swapRet' = "none"
    /\ readySeen' = FALSE
    /\ fetchIssued' = FALSE
    /\ deleteIssued' = FALSE
    /\ IdleMove1
    /\ UNCHANGED <<featSelfHosting, featCoreDNS, certVars, gateVars, deployments,
                   faults, fs, dirs>>

NextRestart == NextRerun \/ Interrupt

\* re-runs after a completed call or after a call that was terminated
SpecRestart == InitRerun /\ [][NextRestart]_vars

\* ------------------------------------------------------ moveFiles alone
NameSeq == <<APIServerCertName, APIServerKeyName>> \o
           [i \in 1..MaxExtraFiles |-> "extra" \o ToString(i)]
NameId(n) == CHOOSE i \in 1..Len(NameSeq) : NameSeq[i] = n

\* the FileMoveSets: some files of the certificate directory, each moved
\* to its name under expired/
FileMoveSets ==
    { {<<Join(certAndKeyDir, n), Join(subDir, n)>> : n \in N} :
        N \in (SUBSET Names) \ {{}} }

\* the files moveFiles can meet: each source exists or not, each
\* destination is free or taken by an older file
FileStates ==
    { [p \in Paths |->
         IF \E n \in Names : p = Join(certAndKeyDir, n) /\ n \in have
         THEN NameId(CHOOSE n \in Names : p = Join(certAndKeyDir, n))
         ELSE IF \E n \in Names : p = Join(subDir, n) /\ n \in taken
         THEN 100 + NameId(CHOOSE n \in Names : p = Join(subDir, n))
         ELSE 0] :
        have \in SUBSET Names, taken \in SUBSET Names }

InitMove ==
    /\ dryRun = FALSE /\ featSelfHosting = FALSE /\ featCoreDNS = FALSE
    /\ pc = "moveFiles"
    /\ errs = <<>> /\ result = NoRet /\ out = [s \in Steps |-> "none"]
    /\ calls = <<>> /\ warnings = <<>> /\ shouldBackup = FALSE
    /\ faults = MaxMoveFaults
    /\ run = 1
    /\ fs \in FileStates
    /\ dirs \in {Dirs, {certAndKeyDir}}
    /\ fs0 = fs /\ dirs0 = dirs /\ faults0 = faults
    /\ selfHosted = FALSE /\ gateLog = <<>>
    /\ deployments = {} /\ attempt = 0 /\ attemptLog = <<>> /\ swapRet = "none"
    /\ readySeen = FALSE /\ fetchIssued = FALSE /\ deleteIssued = FALSE
    /\ mvPc = "move"
    /\ mvFiles \in FileMoveSets
    /\ mvTodo = mvFiles
    /\ filesToRecover = {} /\ rbTodo = {} /\ rbErrs = <<>> /\ rbFailed = 0
    /\ mvRet = NoRet /\ mvMoved = <<>>
    /\ mvFs0 = fs
    /\ NoCertCall

NextMove == MoveStep \/ MoveDone \/ RollbackStep \/ RollbackDone

SpecMove == InitMove /\ [][NextMove]_vars


\* ================================================================ claims
Range(q) == {q[i] : i \in 1..Len(q)}

\* the step returned an error
Failed(s) == out[s] \in {"err", "notfound"}

\* the failures the caller tolerates: the two warnings of the certificate
\* backup, and a "not found" of the kubelet configuration when dry-running
Tolerated(s) ==
    \/ s \in {"shouldBackupAPIServerCertAndKey", "backupAPIServerCertAndKey"}
    \/ (s = "DownloadConfig" /\ out[s] = "notfound" /\ dryRun)

Counted(s) == Failed(s) /\ ~Tolerated(s)

\* the failed steps, in the order the steps ran
ExpectedErrs == SelectSeq(StepOrder, Counted)

\* C1: when PerformPostUpgradeTasks has returned, its result is nil iff no
\* step reported a non-tolerated failure; otherwise the aggregate holds one
\* entry per failed step, in the order the steps ran.
C1_AggregateHoldsEveryFailure ==
    pc = "done" =>
        /\ (result.nil <=> \A s \in Steps : ~Counted(s))
        /\ result.errors = ExpectedErrs

C1_Witness ==
    /\ pc = "done"
    /\ ~result.nil
    /\ Len(result.errors) >= 2
    /\ \E s \in Steps : Failed(s) /\ Tolerated(s)

\* C2: when PerformPostUpgradeTasks has returned, the CRI-socket annotation,
\* the three RBAC steps, the self-hosting gate, the cluster-info RBAC step,
\* the DNS add-on step and the proxy add-on step have each been invoked,
\* whatever the earlier steps returned.
AlwaysInvoked ==
    { "AnnotateCRISocket", "AllowBootstrapTokensToPostCSRs",
      "AutoApproveNodeBootstrapTokens", "AutoApproveNodeCertificateRotation",
      "upgradeToSelfHosting", "CreateClusterInfoRBACRules", "EnsureDNSAddon",
      "EnsureProxyAddon" }

C2_NeverStopsEarly ==
    pc = "done" => AlwaysInvoked \subseteq Range(calls)

C2_Witness ==
    /\ pc = "done"
    /\ out["UploadConfiguration"] = "err"
    /\ out["getKubeletDir"] = "err"
    /\ AlwaysInvoked \subseteq Range(calls)

\* C3: when moveFiles has returned an error and every reversing rename
\* succeeded, every pair it had moved is reversed: the source exists again
\* with the content it had, the destination does not exist.
C3_MovedPairsReversed ==
    (mvPc = "returned" /\ ~mvRet.nil /\ rbFailed = 0) =>
        \A i \in 1..Len(mvMoved) :
            /\ fs[mvMoved[i][1]] # 0
            /\ fs[mvMoved[i][1]] = mvFs0[mvMoved[i][1]]
            /\ fs[mvMoved[i][2]] = 0

C3_Witness ==
    /\ mvPc = "returned"
    /\ ~mvRet.nil
    /\ rbFailed = 0
    /\ Len(mvMoved) >= 2
    /\ \A i \in 1..Len(mvMoved) : fs[mvMoved[i][1]] # 0 /\ fs[mvMoved[i][2]] = 0

\* C4: an invocation of the closure issues the delete of the stale DNS
\* deployment only after its own Get of the installed deployment succeeded
\* and reported at least one ready replica.
C4_DeleteOnlyAfterReady ==
    \A i \in 1..Len(attemptLog) :
        attemptLog[i].req = "Delete" =>
            /\ i = 2
            /\ attemptLog[i].name = deploymentToDelete(featCoreDNS)
            /\ attemptLog[1].req = "Get"
            /\ attemptLog[1].name = installedDeploymentName(featCoreDNS)
            /\ ~attemptLog[1].res.err
            /\ attemptLog[1].res.ReadyReplicas >= 1

C4_Witness ==
    /\ Len(attemptLog) = 2
    /\ attemptLog[2].req = "Delete"
    /\ attemptLog[2].res = "ok"
    /\ deploymentToDelete(featCoreDNS) \notin deployments

\* the old certificate and the old key are both under expired/
OldPairUnderExpired ==
    /\ fs0[certPath] # 0 /\ fs0[keyPath] # 0
    /\ fs[Join(subDir, APIServerCertName)] = fs0[certPath]
    /\ fs[Join(subDir, APIServerKeyName)] = fs0[keyPath]

\* C5 as claimed: whenever CreateAPIServerCertAndKeyFiles is about to be
\* invoked, the old certificate and key are both under expired/.
C5_Original_BackedUpBeforeRegenerated ==
    pc = "createcert" => OldPairUnderExpired

\* C5, amended: backupAPIServerCertAndKey is invoked before
\* CreateAPIServerCertAndKeyFiles, and when it returned no error the old
\* certificate and key are both under expired/ (and no longer in the
\* certificate directory) at the moment CreateAPIServerCertAndKeyFiles is
\* invoked; when the backup failed the pair is regenerated all the same.
C5_BackedUpWhenBackupSucceeded ==
    pc = "createcert" =>
        /\ "backupAPIServerCertAndKey" \in Range(calls)
        /\ out["backupAPIServerCertAndKey"] = "ok" =>
               /\ OldPairUnderExpired
               /\ fs[certPath] = 0 /\ fs[keyPath] = 0

C5_Witness ==
    /\ pc = "createcert"
    /\ out["backupAPIServerCertAndKey"] = "ok"
    /\ OldPairUnderExpired

\* C6: after a call with dryRun = true the files and directories are as
\* they were before the call: the certificate and key at their paths, no
\* expired/ directory created, the pair not regenerated.
C6_DryRunLeavesFilesAlone ==
    (pc = "done" /\ dryRun) => (fs = fs0 /\ dirs = dirs0)

\* C7: the error of the kubelet-configuration download is left out of the
\* aggregate iff it is "not found" and the call is a dry run; every other
\* download error is in the aggregate.
C7_DownloadErrorTolerance ==
    pc = "done" =>
        /\ ("DownloadConfig" \in Range(result.errors)) <=>
              (Failed("DownloadConfig") /\ ~(out["DownloadConfig"] = "notfound" /\ dryRun))
        /\ (Failed("DownloadConfig") /\ "DownloadConfig" \notin Range(result.errors)) =>
              (out["DownloadConfig"] = "notfound" /\ dryRun)

C7_Witness ==
    /\ pc = "done"
    /\ dryRun
    /\ out["DownloadConfig"] = "notfound"
    /\ "DownloadConfig" \notin Range(result.errors)

\* the invocations of step s in this call
Invocations(s) == Cardinality({i \in 1..Len(calls) : calls[i] = s})

\* C8: in a dry run no Get of the installed DNS deployment and no delete of
\* the stale one is issued and the swap is not invoked; a real run that has
\* returned invoked the swap exactly once.
C8_SwapSkippedWhenDryRun ==
    /\ dryRun =>
          /\ ~fetchIssued /\ ~deleteIssued
          /\ Invocations("removeOldDNSDeploymentIfAnotherDNSIsUsed") = 0
    /\ (pc = "done" /\ ~dryRun) =>
          /\ fetchIssued
          /\ Invocations("removeOldDNSDeploymentIfAnotherDNSIsUsed") = 1

C8_Witness ==
    /\ pc = "done"
    /\ dryRun
    /\ out["EnsureDNSAddon"] = "err"
    /\ out["removeOldDNSDeploymentIfAnotherDNSIsUsed"] = "none"
    /\ ~fetchIssued

WarningSteps == {"shouldBackupAPIServerCertAndKey", "backupAPIServerCertAndKey"}

\* C9: a failed determination and a failed backup are never in the
\* aggregate: the result holds exactly the failures of the other steps, as
\* it would had the determination or the backup succeeded.
C9_WarningsNeverAppended ==
    (pc = "done" /\ \E w \in WarningSteps : out[w] = "err") =>
        /\ Range(result.errors) \cap WarningSteps = {}
        /\ Len(result.errors) = Cardinality({s \in Steps \ WarningSteps : Counted(s)})
        /\ Len(warnings) = Cardinality({w \in WarningSteps : out[w] = "err"})

C9_Witness ==
    /\ pc = "done"
    /\ out["backupAPIServerCertAndKey"] = "err"
    /\ out["CreateAPIServerCertAndKeyFiles"] = "ok"
    /\ result.nil

\* converter invocations over the calls of upgradeToSelfHosting so far
Conversions == Cardinality({i \in 1..Len(gateLog) : gateLog[i].converted})

\* C10 as claimed: two calls of upgradeToSelfHosting in a row with the flag
\* enabled invoke the converter at most once, whatever the first returned.
C10_Original_ConverterAtMostOnce ==
    (featSelfHosting /\ Len(gateLog) = 2) => Conversions <= 1

\* C10, amended: with the flag enabled, a call of upgradeToSelfHosting that
\* follows a call which returned no error in real execution does not invoke
\* the converter, so the two calls invoke it at most once.
C10_ConverterNotRepeatedAfterSuccess ==
    \A i \in 1..(Len(gateLog) - 1) :
        (gateLog[i].flag /\ gateLog[i].res = "ok" /\ ~gateLog[i].dry) =>
            ~gateLog[i + 1].converted

C10_Witness ==
    /\ Len(gateLog) = 2
    /\ gateLog[1].converted /\ gateLog[1].res = "ok" /\ ~gateLog[1].dry
    /\ ~gateLog[2].converted


\* C11: in a call that starts with expired/ left by an earlier call (one
\* that completed or one that was terminated), backupAPIServerCertAndKey
\* succeeds again when no failure is injected into it: the step is
\* re-runnable.
C11_BackupSucceedsWhenExpiredExists ==
    (run > 1 /\ pc = "createcert" /\ subDir \in dirs0 /\ faults = faults0) =>
        out["backupAPIServerCertAndKey"] = "ok"


\* the swap has returned to PerformPostUpgradeTasks
SwapReturned == pc = "proxy" /\ attempt > 0

\* the latest invocation of the closure deleted the stale deployment or
\* found it gone
LastAttemptSucceeded ==
    /\ Len(attemptLog) = 2
    /\ attemptLog[2].req = "Delete"
    /\ attemptLog[2].res \in {"ok", "notfound"}

\* the latest invocation of the closure saw no ready replica
LastAttemptSawNoReplica ==
    /\ attemptLog # <<>>
    /\ ~attemptLog[1].res.err
    /\ attemptLog[1].res.ReadyReplicas = 0

\* C12: the closure is invoked at most 10 times; an invocation that sees
\* ReadyReplicas = 0 fails; another invocation follows only a failed one,
\* and the first success ends the retrying with success; when the 10th
\* invocation fails too, its error is what is returned.
C12_AtMostTenAttempts ==
    /\ attempt <= 10
    /\ (pc = "removedns" /\ attempt > 0) => (~LastAttemptSucceeded /\ attempt < 10)
    /\ LastAttemptSawNoReplica =>
          (Len(attemptLog) = 1 /\ swapRet \in {"none", "notready"})
    /\ SwapReturned =>
          /\ swapRet # "none"
          /\ swapRet = "nil" <=> LastAttemptSucceeded
          /\ swapRet = "nil" <=> out["removeOldDNSDeploymentIfAnotherDNSIsUsed"] = "ok"
          /\ swapRet # "nil" =>
                /\ attempt = 10
                /\ swapRet = (IF attemptLog[1].res.err THEN "get"
                              ELSE IF Len(attemptLog) = 1 THEN "notready" ELSE "delete")

C12_Witness ==
    /\ SwapReturned
    /\ attempt = 3
    /\ swapRet = "nil"
    /\ LastAttemptSucceeded


\* the latest invocation of the closure found the installed deployment
\* ready and issued the delete, which returned d
LastDeleteReturned(d) ==
    /\ Len(attemptLog) = 2
    /\ attemptLog[1].res.ReadyReplicas >= 1
    /\ attemptLog[2].req = "Delete"
    /\ attemptLog[2].res = d

\* C13: in an invocation that found the installed deployment ready, a
\* "not found" of the delete makes the invocation succeed (the swap returns
\* nil), any other delete error makes it fail with that error (the swap
\* retries, or returns the delete's error after the last invocation).
C13_DeleteNotFoundIsSuccess ==
    /\ LastDeleteReturned("notfound") =>
          /\ pc = "proxy"
          /\ swapRet = "nil"
          /\ out["removeOldDNSDeploymentIfAnotherDNSIsUsed"] = "ok"
    /\ LastDeleteReturned("err") =>
          \/ (pc = "removedns" /\ swapRet = "none")
          \/ (pc = "proxy" /\ swapRet = "delete"
              /\ out["removeOldDNSDeploymentIfAnotherDNSIsUsed"] = "err")

C13_Witness ==
    /\ LastDeleteReturned("notfound")
    /\ swapRet = "nil"
    /\ attempt >= 2


\* C14: moveFiles returns nil iff every rename of the set succeeded, and
\* then every destination exists, with the content its source had, and no
\* source remains.
C14_MoveAllOrError ==
    mvPc = "returned" =>
        /\ mvRet.nil <=> (Range(mvMoved) = mvFiles /\ Len(mvMoved) = Cardinality(mvFiles))
        /\ mvRet.nil =>
              \A p \in mvFiles :
                  /\ fs[p[2]] # 0
                  /\ fs[p[2]] = mvFs0[p[1]]
                  /\ fs[p[1]] = 0

C14_Witness ==
    /\ mvPc = "returned"
    /\ mvRet.nil
    /\ Cardinality(mvFiles) >= 3
    /\ \A p \in mvFiles : fs[p[2]] # 0 /\ fs[p[1]] = 0

\* ------------------------------------- shouldBackupAPIServerCertAndKey alone
\* the time of the call, in hours since an epoch before every NotBefore
Now == 24 * 365

\* the ages sampled: every hour within MaxSkewDays of the horizon
Ages == (expiry - 24 * MaxSkewDays)..(expiry + 24 * MaxSkewDays)

\* the ends of validity sampled: passed, a day ahead, a year ahead
NotAfters == {Now - 24, Now + 24, Now + 24 * 365}

Certificates == [NotBefore : {Now - a : a \in Ages}, NotAfter : NotAfters]

\* what CertsFromFile can give: an error, no certificate, one certificate,
\* or two of which the second is a day old
CertFiles ==
    {[err |-> TRUE, certs |-> <<>>], [err |-> FALSE, certs |-> <<>>]} \cup
    {[err |-> FALSE, certs |-> <<c>>] : c \in Certificates} \cup
    {[err |-> FALSE, certs |-> <<c, [NotBefore |-> Now - 24, NotAfter |-> Now + 24 * 365]>>] :
        c \in Certificates}

InitCert ==
    /\ dryRun = FALSE /\ featSelfHosting = FALSE /\ featCoreDNS = FALSE
    /\ pc = "shouldBackupAPIServerCertAndKey"
    /\ errs = <<>> /\ result = NoRet /\ out = [s \in Steps |-> "none"]
    /\ calls = <<>> /\ warnings = <<>> /\ shouldBackup = FALSE
    /\ faults = 0
    /\ run = 1
    /\ fs = [p \in Paths |-> IF p \in {certPath, keyPath} THEN 1 ELSE 0]
    /\ dirs = {certAndKeyDir}
    /\ fs0 = fs /\ dirs0 = dirs /\ faults0 = faults
    /\ selfHosted = FALSE /\ gateLog = <<>>
    /\ deployments = {} /\ attempt = 0 /\ attemptLog = <<>> /\ swapRet = "none"
    /\ readySeen = FALSE /\ fetchIssued = FALSE /\ deleteIssued = FALSE
    /\ IdleMove
    /\ certFile \in CertFiles
    /\ now = Now
    /\ certRet = NotCalled

\* a call of shouldBackupAPIServerCertAndKey(certAndKeyDir)
ShouldBackupCall ==
    /\ pc = "shouldBackupAPIServerCertAndKey"
    /\ ~certRet.called
    /\ certRet' = [called |-> TRUE,
                   backup |-> ShouldBackupOf(certFile, now).backup,
                   err |-> ShouldBackupOf(certFile, now).err]
    /\ UNCHANGED <<orchVars, cfgVars, certFile, now, runVars, gateVars, dnsVars,
                   mvVars, faults, fs, dirs>>

NextCert == ShouldBackupCall

SpecCert == InitCert /\ [][NextCert]_vars

StepIndex(s) == CHOOSE i \in 1..Len(StepOrder) : StepOrder[i] = s

\* C16: within one call the steps are invoked in the fixed order of the
\* code (upload configuration, kubelet ConfigMap, kubelet directory, kubelet
\* config download, CRI socket, the three RBAC rule sets, self-hosting gate,
\* cluster-info RBAC, certificate backup and reissue, DNS add-on, stale-DNS
\* removal, proxy add-on), each at most once, and the download is invoked
\* only when the directory resolution succeeded.
C16_FixedOrderEachStepOnce ==
    /\ \A i \in 1..Len(calls) : calls[i] \in Steps
    /\ \A i, j \in 1..Len(calls) :
          i < j => StepIndex(calls[i]) < StepIndex(calls[j])
    /\ \A s \in Steps : Invocations(s) <= 1
    /\ Invocations("DownloadConfig") = 1 => out["getKubeletDir"] = "ok"

C16_Witness ==
    /\ pc = "done"
    /\ calls = StepOrder


\* the failure of os.Rename(q[1], q[2]) as an entry of an error list
RenameFailure(q) == [old |-> q[1], new |-> q[2]]

\* the recovered pairs whose reversing rename is reported in the returned error
ReportedReversals ==
    {q \in filesToRecover :
        \E i \in 2..Len(mvRet.errors) : mvRet.errors[i] = RenameFailure(q)}

\* C17: when a rename failed in moveFiles, the error returned through
\* rollbackFiles is non-nil, its first entry is the failure of the rename
\* that was not done, and it has one further entry for every reversing rename
\* that failed; every recovered pair was attempted: it is either moved back
\* or reported, also after another reversal failed.
C17_RollbackReportsEveryFailure ==
    (mvPc = "returned" /\ rbErrs # <<>>) =>
        /\ ~mvRet.nil
        /\ \E p \in mvFiles \ Range(mvMoved) : mvRet.errors[1] = RenameFailure(p)
        /\ Len(mvRet.errors) = 1 + rbFailed
        /\ Cardinality(ReportedReversals) = rbFailed
        /\ \A q \in filesToRecover :
              (q \in ReportedReversals) <=> ~(fs[q[2]] # 0 /\ fs[q[1]] = 0)

C17_Witness ==
    /\ mvPc = "returned"
    /\ ~mvRet.nil
    /\ rbFailed = 1
    /\ Cardinality(filesToRecover) = 2
    /\ Cardinality(ReportedReversals) = 1
    /\ \E q \in filesToRecover : fs[q[2]] # 0 /\ fs[q[1]] = 0


\* C18: upgradeToSelfHosting invokes CreateSelfHostedControlPlane iff the
\* SelfHosting flag is enabled and IsControlPlaneSelfHosted reports false;
\* otherwise it returns nil without invoking the converter; an error of the
\* converter is the error upgradeToSelfHosting returns.
C18_ConverterIffFlagAndNotHosted ==
    \A i \in 1..Len(gateLog) :
        LET g == gateLog[i]
        IN  /\ g.converted <=> (g.flag /\ ~g.hosted)
            /\ ~g.converted => (g.conv = "none" /\ g.res = "ok")
            /\ g.converted => (g.conv \in {"ok", "err"} /\ g.res = g.conv)
            /\ (Invocations("upgradeToSelfHosting") = 1 /\ i = Len(gateLog)) =>
                  /\ out["upgradeToSelfHosting"] = g.res
                  /\ g.res = "err" <=> "upgradeToSelfHosting" \in Range(errs)

C18_Witness ==
    /\ Len(gateLog) = 1
    /\ gateLog[1].flag /\ ~gateLog[1].hosted
    /\ gateLog[1].converted
    /\ gateLog[1].conv = "err"
    /\ gateLog[1].res = "err"
    /\ pc = "done"


\* the entries of step s in a list of errors
Entries(list, s) == Cardinality({i \in 1..Len(list) : list[i] = s})

\* TryRunCommand returned and no invocation of the closure had found a
\* ready replica of the installed DNS deployment
NeverReadySwapReturned == swapRet # "none" /\ ~readySeen

\* C19: when every collaborator call returns, PerformPostUpgradeTasks
\* returns; when the installed DNS deployment never became ready the swap
\* ends after exactly 10 invocations of the closure with one error appended,
\* and from there the proxy add-on is invoked and the call returns with
\* that one error in its aggregate.
C19_TerminatesAfterExhaustedSwap ==
    /\ <>(pc = "done")
    /\ [](NeverReadySwapReturned =>
            /\ attempt = 10
            /\ swapRet \in {"get", "notready"}
            /\ Entries(errs, "removeOldDNSDeploymentIfAnotherDNSIsUsed") = 1
            /\ Invocations("EnsureProxyAddon") = 0)
    /\ NeverReadySwapReturned ~>
            (/\ pc = "done"
             /\ Invocations("EnsureProxyAddon") = 1
             /\ calls[Len(calls)] = "EnsureProxyAddon"
             /\ ~result.nil
             /\ Entries(result.errors, "removeOldDNSDeploymentIfAnotherDNSIsUsed") = 1)

C19_Witness ==
    /\ pc = "done"
    /\ out["removeOldDNSDeploymentIfAnotherDNSIsUsed"] = "err"
    /\ out["EnsureProxyAddon"] = "ok"
    /\ result.errors = <<"removeOldDNSDeploymentIfAnotherDNSIsUsed">>


\* the call is past the certificate block of PerformPostUpgradeTasks
PastCertBlock == pc \in {"dns", "removedns", "proxy", "return", "done"}

\* C20: CreateAPIServerCertAndKeyFiles is invoked iff
\* shouldBackupAPIServerCertAndKey returned true and no error: not when the
\* determination failed or returned false, and also when
\* backupAPIServerCertAndKey failed; its own error is appended to errs.
C20_ReissueIffBackupDue ==
    /\ Invocations("CreateAPIServerCertAndKeyFiles") = 1 =>
          (out["shouldBackupAPIServerCertAndKey"] = "ok" /\ shouldBackup)
    /\ PastCertBlock =>
          /\ Invocations("CreateAPIServerCertAndKeyFiles") = 1 <=>
                (out["shouldBackupAPIServerCertAndKey"] = "ok" /\ shouldBackup)
          /\ out["backupAPIServerCertAndKey"] # "none" =>
                Invocations("CreateAPIServerCertAndKeyFiles") = 1
          /\ out["CreateAPIServerCertAndKeyFiles"] = "err" <=>
                Entries(errs, "CreateAPIServerCertAndKeyFiles") = 1
          /\ Entries(errs, "CreateAPIServerCertAndKeyFiles") <= 1

C20_Witness ==
    /\ pc = "done"
    /\ out["shouldBackupAPIServerCertAndKey"] = "ok"
    /\ out["backupAPIServerCertAndKey"] = "err"
    /\ out["CreateAPIServerCertAndKeyFiles"] = "err"
    /\ "CreateAPIServerCertAndKeyFiles" \in Range(result.errors)

====
